---- MODULE Spec2Model ----
(***************************************************************************)
(* ResearchMateBackend (src/backend/main.py): a REST backend over three    *)
(* tables (users, pdfs, summaries) and a flat directory of uploaded files. *)
(*                                                                         *)
(* Spec      : the requests are handled one at a time; every handler is    *)
(*             one action of the model.                                    *)
(* ConcSpec  : the handlers of the user and summary endpoints run          *)
(*             concurrently (FastAPI runs "def" handlers in a thread       *)
(*             pool); a handler is a sequence of steps, one per database   *)
(*             statement, between the two halves of get_db.                *)
(***************************************************************************)
EXTENDS Integers, Sequences, FiniteSets, TLC

(***************************************************************************)
(* Bounds of the model.                                                    *)
(***************************************************************************)
\* The model stops inserting rows once the primary keys handed out in tables
\* users and pdfs add up to MaxRows.
MaxRows == 2
\* ConcSpec serves MaxRequests requests in all.
MaxRequests == 3

\* Defaults of the listing endpoints: skip = 0, limit = 10.
DefaultSkip == 0
DefaultLimit == 10
\* create_pdf stores every upload under user_id = 1.
UploadUserId == 1

\* Python's None as the value of an unset Optional[str] field.
None == "None"
\* Python's None as the result of a query without a row.
NoRow == [none |-> TRUE]

Names == {"A", "B"}
Emails == {"a@x.com", "b@x.com"}
Passwords == {"p", "q"}
\* Request bodies (pydantic models UserCreate, UserUpdate).
UserCreate == [name : Names, email : Emails, password : Passwords]
UserUpdate ==
    [name : Names \cup {None}, email : Emails \cup {None},
     password : Passwords \cup {None}]

\* Uploaded files: the client's file name and the bytes of the stream.
UploadFile ==
    {[filename |-> "f.pdf", file |-> "bytes1"],
     [filename |-> "g.pdf", file |-> "bytes2"]}
\* Values uuid.uuid4() can return.
UUIDs == {"u1", "u2"}

\* Request body of POST /summary/ (pydantic model SummaryRequest).
SummaryRequest == [pdf_id : 1..(MaxRows + 1), storage_id : {"u1"}]

\* skip and limit are any int: negative ones, small ones, the defaults.
Skips == {-1, 1, DefaultSkip}
Limits == {-1, 0, 1, DefaultLimit}

VARIABLES
    users,      \* table users: id -> [name, email, password]
    pdfs,       \* table pdfs: id -> [user_id, fileName, storage_path]
    summaries,  \* table summaries: id -> [pdf_id, summarize_text]
    storage,    \* the directory storage/: path -> bytes
    req,        \* Spec: the last request handled, [op, ...parameters]
    resp,       \* Spec: the response to it, [status, body]
    uploaded,   \* history: pdf id -> the upload that returned it
    reqs,       \* ConcSpec: worker thread -> the request it is handling
    sessions,   \* ConcSpec: the persistence sessions that are open
    nsessions   \* ConcSpec: the number of sessions created so far

vars == <<users, pdfs, summaries, storage, req, resp, uploaded, reqs, sessions,
          nsessions>>
store == <<users, pdfs, summaries, storage>>
conc == <<reqs, sessions, nsessions>>

(***************************************************************************)
(* The persistence layer.                                                  *)
(***************************************************************************)
Max(S) == CHOOSE x \in S : \A y \in S : y <= x

\* INTEGER PRIMARY KEY of SQLite: the next rowid is the largest one + 1.
NextId(table) == IF DOMAIN table = {} THEN 1 ELSE Max(DOMAIN table) + 1

\* The ids of a table in the order an unordered SELECT scans them (by rowid).
RECURSIVE Rows(_)
Rows(ids) ==
    IF ids = {} THEN <<>>
    ELSE LET m == Max(ids) IN Append(Rows(ids \ {m}), m)

\* First with the filter on the id lost: the query returns a row of the table
\* whenever there is one.
FirstUnfiltered(table, id) ==
    IF DOMAIN table = {} THEN NoRow
    ELSE IF id \in DOMAIN table THEN table[id] ELSE table[Max(DOMAIN table)]

\* db.query(T).filter(T.id == id).first()
First(table, id) == IF id \in DOMAIN table THEN table[id] ELSE NoRow

\* EmailTaken for a column email declared without unique = True.
EmailNotUnique(table, id, email) == FALSE

\* email = Column(String, unique = True): another row holds the email.
EmailTaken(table, id, email) ==
    \E other \in DOMAIN table : other # id /\ table[other].email = email

\* Page with the offset left out of the query.
PageNoOffset(ids, skip, limit) ==
    LET all == Rows(ids)
    IN  IF limit < 0 \/ limit >= Len(all) THEN all ELSE SubSeq(all, 1, limit)

\* .offset(skip).limit(limit).all() over the ids of a table.  SQLite reads a
\* negative OFFSET as 0 and a negative LIMIT as "no upper bound".
Page(ids, skip, limit) ==
    LET all == Rows(ids)
        off == IF skip < 0 THEN 0 ELSE skip
        rest == SubSeq(all, off + 1, Len(all))
    IN  IF limit < 0 \/ limit >= Len(rest) THEN rest ELSE SubSeq(rest, 1, limit)

\* db.add(row) / the UPDATE of a row, committed.
Put(table, id, row) ==
    [i \in DOMAIN table \cup {id} |-> IF i = id THEN row ELSE table[i]]
\* Remove as a DELETE whose WHERE clause also matches the rows before id.
RemoveUpTo(table, id) == [i \in {j \in DOMAIN table : j > id} |-> table[i]]

\* db.delete(row), committed.
Remove(table, id) == [i \in DOMAIN table \ {id} |-> table[i]]

(***************************************************************************)
(* Data contracts.                                                         *)
(***************************************************************************)
UserResponse(id, row) == [id |-> id, name |-> row.name, email |-> row.email]
PDFResponse(id, row) == [id |-> id, fileName |-> row.fileName]

\* response_model = list[...]: the body is a JSON array.
List(items) == [items |-> items]
\* raise HTTPException(status_code, detail): the body is {"detail": detail}.
HTTPException(detail) == [detail |-> detail]
\* An exception no handler catches: FastAPI answers 500.
Unhandled(exception) == [error |-> exception]

Response(status, body) == [status |-> status, body |-> body]

\* The by-id requests the model sends: every id up to the next free one.
IdArgs(table) == 1..NextId(table)

\* The primary keys handed out so far, over both tables.
RowsUsed == (NextId(users) - 1) + (NextId(pdfs) - 1)

\* f"storage/{file_id}.pdf"
StoragePath(file_id) == <<"storage/", file_id, ".pdf">>

\* The threads of the pool FastAPI runs the handlers in.
Workers == {"w1", "w2"}
\* A worker that handles no request, and one at a step of a handler.
Idle == [pc |-> "idle", op |-> "none", id |-> 0, row |-> NoRow, db |-> 0,
         outcome |-> "none"]
Running(pc, op, id, row, db) ==
    [pc |-> pc, op |-> op, id |-> id, row |-> row, db |-> db,
     outcome |-> "none"]

(***************************************************************************)
(* Init: empty tables (Base.metadata.create_all), empty storage directory. *)
(***************************************************************************)
Init ==
    /\ users = <<>>
    /\ pdfs = <<>>
    /\ summaries = <<>>
    /\ storage = <<>>
    /\ req = [op |-> "none"]
    /\ resp = Response(0, Unhandled("none"))
    /\ uploaded = <<>>
    /\ reqs = [w \in Workers |-> Idle]
    /\ sessions = {}
    /\ nsessions = 0

(***************************************************************************)
(* The handlers, one request at a time.                                    *)
(***************************************************************************)
\* POST /users.  db.commit() sends the INSERT; the unique index on email makes
\* it raise IntegrityError, which the handler turns into a 400.
create_user(user) ==
    /\ req' = [op |-> "create_user", user |-> user]
    /\ IF EmailTaken(users, 0, user.email)
       THEN /\ users' = users
            /\ resp' = Response(400, HTTPException("Email already registered"))
       ELSE LET id == NextId(users)
                row == [name |-> user.name, email |-> user.email,
                        password |-> user.password]
            IN  /\ RowsUsed < MaxRows
                /\ users' = Put(users, id, row)
                /\ resp' = Response(200, UserResponse(id, row))
    /\ UNCHANGED <<pdfs, summaries, storage, uploaded, conc>>

\* GET /users
read_users(skip, limit) ==
    /\ req' = [op |-> "read_users", skip |-> skip, limit |-> limit]
    /\ LET page == Page(DOMAIN users, skip, limit)
       IN  resp' = Response(200, List([i \in DOMAIN page |->
                                        UserResponse(page[i], users[page[i]])]))
    /\ UNCHANGED <<store, uploaded, conc>>

\* GET /users/{user_id}
read_user(user_id) ==
    /\ req' = [op |-> "read_user", user_id |-> user_id]
    /\ LET user == First(users, user_id)
       IN  IF user = NoRow
           THEN resp' = Response(404, HTTPException("User not Found"))
           ELSE resp' = Response(200, UserResponse(user_id, user))
    /\ UNCHANGED <<store, uploaded, conc>>

\* Merged with the request's fields assigned as they are, None included.
MergedOverwrite(db_user, user) ==
    [name |-> user.name, email |-> user.email, password |-> user.password]

\* The three assignments of update_user: a field that is None in the request
\* keeps the row's value.
Merged(db_user, user) ==
    [name |-> IF user.name # None THEN user.name ELSE db_user.name,
     email |-> IF user.email # None THEN user.email ELSE db_user.email,
     password |-> IF user.password # None THEN user.password
                  ELSE db_user.password]

\* PUT /users/{user_id}.  db.commit() raises IntegrityError when the UPDATE
\* breaks the unique index on email; the handler does not catch it (500) and
\* the session is closed without a commit.
update_user(user_id, user) ==
    /\ req' = [op |-> "update_user", user_id |-> user_id, user |-> user]
    /\ LET db_user == First(users, user_id)
       IN  IF db_user = NoRow
           THEN /\ users' = users
                /\ resp' = Response(404, HTTPException("User not Found"))
           ELSE LET row == Merged(db_user, user)
                IN  IF EmailTaken(users, user_id, row.email)
                    THEN /\ users' = users
                         /\ resp' = Response(500, Unhandled("IntegrityError"))
                    ELSE /\ users' = Put(users, user_id, row)
                         /\ resp' = Response(200, UserResponse(user_id, row))
    /\ UNCHANGED <<pdfs, summaries, storage, uploaded, conc>>

\* DELETE /users/{user_id}.  The handler declares a UserUpdate body (user) and
\* never reads it; req records the part of the request that is read.
delete_user(user_id, user) ==
    /\ req' = [op |-> "delete_user", user_id |-> user_id]
    /\ LET db_user == First(users, user_id)
       IN  IF db_user = NoRow
           THEN /\ users' = users
                /\ resp' = Response(404, HTTPException("User not Found"))
           ELSE /\ users' = Remove(users, user_id)
                /\ resp' = Response(200, UserResponse(user_id, db_user))
    /\ UNCHANGED <<pdfs, summaries, storage, uploaded, conc>>

\* create_pdf recording the generated name as the file name.
create_pdf_generated_name(file, file_id) ==
    /\ RowsUsed < MaxRows
    /\ req' = [op |-> "create_pdf", file |-> file, file_id |-> file_id]
    /\ LET path == StoragePath(file_id)
           id == NextId(pdfs)
           pdf == [user_id |-> UploadUserId, fileName |-> file_id,
                   storage_path |-> path]
       IN  /\ storage' = Put(storage, path, file.file)
           /\ pdfs' = Put(pdfs, id, pdf)
           /\ resp' = Response(200, PDFResponse(id, pdf))
           /\ uploaded' = Put(uploaded, id,
                               [file |-> file, file_id |-> file_id])
    /\ UNCHANGED <<users, summaries, conc>>

\* POST /pdf/upload.  file_id is the value uuid.uuid4() returns.  open(path,
\* "wb") creates the file or truncates the one that is there; copyfileobj
\* writes the whole stream.
create_pdf(file, file_id) ==
    /\ RowsUsed < MaxRows
    /\ req' = [op |-> "create_pdf", file |-> file, file_id |-> file_id]
    /\ LET path == StoragePath(file_id)
           id == NextId(pdfs)
           pdf == [user_id |-> UploadUserId, fileName |-> file.filename,
                   storage_path |-> path]
       IN  /\ storage' = Put(storage, path, file.file)
           /\ pdfs' = Put(pdfs, id, pdf)
           /\ resp' = Response(200, PDFResponse(id, pdf))
           /\ uploaded' = Put(uploaded, id,
                               [file |-> file, file_id |-> file_id])
    /\ UNCHANGED <<users, summaries, conc>>

\* GET /pdf/
read_pdfs(skip, limit) ==
    /\ req' = [op |-> "read_pdfs", skip |-> skip, limit |-> limit]
    /\ LET page == Page(DOMAIN pdfs, skip, limit)
       IN  resp' = Response(200, List([i \in DOMAIN page |->
                                        PDFResponse(page[i], pdfs[page[i]])]))
    /\ UNCHANGED <<store, uploaded, conc>>

\* GET /pdf/{id}
read_pdf(id) ==
    /\ req' = [op |-> "read_pdf", id |-> id]
    /\ LET pdf == First(pdfs, id)
       IN  IF pdf = NoRow
           THEN resp' = Response(404, HTTPException("PDF not Found"))
           ELSE resp' = Response(200, PDFResponse(id, pdf))
    /\ UNCHANGED <<store, uploaded, conc>>

\* FileResponse(path, media_type, filename): the bytes of the file at path,
\* sent under the given file name; an unhandled error without the file.
FileResponse(path, media_type, filename) ==
    IF path \in DOMAIN storage
    THEN Response(200, [content |-> storage[path], media_type |-> media_type,
                        filename |-> filename])
    ELSE Response(500, Unhandled("RuntimeError"))

\* GET /pdf/{id}/download
get_pdf(id) ==
    /\ req' = [op |-> "get_pdf", id |-> id]
    /\ LET pdf == First(pdfs, id)
       IN  IF pdf = NoRow
           THEN resp' = Response(404, HTTPException("PDF not Found"))
           ELSE resp' = FileResponse(pdf.storage_path, "application/pdf",
                                     pdf.fileName)
    /\ UNCHANGED <<store, uploaded, conc>>

\* create_summary with the "save summary in db" of its comments carried out.
create_summary_saved(summary_request) ==
    /\ req' = [op |-> "create_summary", summary_request |-> summary_request]
    /\ summaries' = Put(summaries, NextId(summaries),
                        [pdf_id |-> summary_request.pdf_id,
                         summarize_text |-> ""])
    /\ resp' = Response(500, Unhandled("AttributeError"))
    /\ UNCHANGED <<users, pdfs, storage, uploaded, conc>>

\* POST /summary/: SummaryRequest has no field "summary"; the return statement
\* raises AttributeError (500) before anything is read or written.
create_summary(summary_request) ==
    /\ req' = [op |-> "create_summary", summary_request |-> summary_request]
    /\ resp' = Response(500, Unhandled("AttributeError"))
    /\ UNCHANGED <<store, uploaded, conc>>

\* GET /summary/{pdf_id}: a bare return; None does not validate as a
\* SummaryResponse (500).
get_summary(pdf_id) ==
    /\ req' = [op |-> "get_summary", pdf_id |-> pdf_id]
    /\ resp' = Response(500, Unhandled("ResponseValidationError"))
    /\ UNCHANGED <<store, uploaded, conc>>

Next ==
    \/ \E user \in UserCreate : create_user(user)
    \/ \E skip \in Skips, limit \in Limits : read_users(skip, limit)
    \/ \E user_id \in IdArgs(users) : read_user(user_id)
    \/ \E user_id \in IdArgs(users), user \in UserUpdate :
          update_user(user_id, user)
    \/ \E user_id \in IdArgs(users), user \in UserUpdate :
          delete_user(user_id, user)
    \/ \E file \in UploadFile, file_id \in UUIDs : create_pdf(file, file_id)
    \/ \E skip \in Skips, limit \in Limits : read_pdfs(skip, limit)
    \/ \E id \in IdArgs(pdfs) : read_pdf(id)
    \/ \E id \in IdArgs(pdfs) : get_pdf(id)
    \/ \E summary_request \in SummaryRequest : create_summary(summary_request)
    \/ \E pdf_id \in IdArgs(pdfs) : get_summary(pdf_id)

Spec == Init /\ [][Next]_vars

(***************************************************************************)
(* The handlers of the user and summary endpoints run concurrently.        *)
(* A worker takes a request, opens its session (get_db), runs the handler  *)
(* one database statement at a time, and closes the session (the finally   *)
(* of get_db).  pysqlite opens a transaction at the first INSERT, UPDATE   *)
(* or DELETE, not at a SELECT: a query, a commit and a refresh are three   *)
(* separate atomic steps of the database.  The request body is drawn at    *)
(* the step that first reads it.                                           *)
(***************************************************************************)
UserOps ==
    {"create_user", "read_users", "read_user", "update_user", "delete_user"}
SummaryOps == {"create_summary", "get_summary"}

At(w, pc, op) == reqs[w].pc = pc /\ reqs[w].op = op

\* The handler of worker w goes on to step pc with the row it has loaded.
Goto(w, pc, row) == reqs' = [reqs EXCEPT ![w].pc = pc, ![w].row = row]

\* The handler of worker w returns ("return"), raises an HTTPException or
\* raises an exception it does not catch ("exception").
Exit(w, outcome) ==
    reqs' = [reqs EXCEPT ![w] = [Idle EXCEPT !.pc = "exit", !.db = reqs[w].db,
                                             !.outcome = outcome]]

\* A worker takes a request; Depends(get_db) runs get_db up to its yield:
\* db = SessionLocal().
get_db(w, op, id) ==
    /\ reqs[w].pc \in {"idle", "done"}
    /\ nsessions < MaxRequests
    /\ nsessions' = nsessions + 1
    /\ sessions' = sessions \cup {nsessions + 1}
    /\ reqs' = [reqs EXCEPT
                  ![w] = Running("handler", op, id, NoRow, nsessions + 1)]
    /\ UNCHANGED <<store, req, resp, uploaded>>

\* get_db written without try / finally: db.close() runs only when the
\* handler returns.
get_db_close_on_return(w) ==
    /\ reqs[w].pc = "exit"
    /\ sessions' = IF reqs[w].outcome = "return"
                   THEN sessions \ {reqs[w].db} ELSE sessions
    /\ reqs' = [reqs EXCEPT ![w].pc = "done"]
    /\ UNCHANGED <<store, req, resp, uploaded, nsessions>>

\* The finally of get_db, after the handler returned or raised: db.close().
get_db_finally(w) ==
    /\ reqs[w].pc = "exit"
    /\ sessions' = sessions \ {reqs[w].db}
    /\ reqs' = [reqs EXCEPT ![w].pc = "done"]
    /\ UNCHANGED <<store, req, resp, uploaded, nsessions>>

\* create_user: db.add(db_user); db.commit().  The INSERT and the check of
\* the unique index are one step of the database.
create_user_commit(w, user) ==
    /\ At(w, "handler", "create_user")
    /\ IF EmailTaken(users, 0, user.email)
       THEN /\ users' = users
            /\ Exit(w, "HTTPException")
       ELSE /\ users' = Put(users, NextId(users),
                            [name |-> user.name, email |-> user.email,
                             password |-> user.password])
            /\ reqs' = [reqs EXCEPT ![w].pc = "refresh",
                                    ![w].id = NextId(users)]
    /\ UNCHANGED <<pdfs, summaries, storage, req, resp, uploaded, sessions,
                   nsessions>>

\* db.refresh(db_user) of create_user and update_user: a SELECT of the row; it
\* raises InvalidRequestError when the row is gone.
refresh(w) ==
    /\ reqs[w].pc = "refresh"
    /\ Exit(w, IF reqs[w].id \in DOMAIN users THEN "return" ELSE "exception")
    /\ UNCHANGED <<store, req, resp, uploaded, sessions, nsessions>>

\* read_users: the query, then return.
read_users_query(w) ==
    /\ At(w, "handler", "read_users")
    /\ Exit(w, "return")
    /\ UNCHANGED <<store, req, resp, uploaded, sessions, nsessions>>

\* read_user, update_user, delete_user: the query for the row, and the 404
\* without one.
query_user(w) ==
    /\ reqs[w].pc = "handler"
    /\ reqs[w].op \in {"read_user", "update_user", "delete_user"}
    /\ LET db_user == First(users, reqs[w].id)
       IN  IF db_user = NoRow THEN Exit(w, "HTTPException")
           ELSE IF reqs[w].op = "read_user" THEN Exit(w, "return")
           ELSE Goto(w, "commit", db_user)
    /\ UNCHANGED <<store, req, resp, uploaded, sessions, nsessions>>

UserFields == {"name", "email", "password"}

\* update_user: the assignments and db.commit().  The UPDATE sets the columns
\* whose value differs from the one loaded; without one no UPDATE is sent.
\* It raises StaleDataError when the row is gone and IntegrityError when it
\* breaks the unique index on email.
update_user_commit(w, user) ==
    /\ At(w, "commit", "update_user")
    /\ LET id == reqs[w].id
           new == Merged(reqs[w].row, user)
           changed == {f \in UserFields : new[f] # reqs[w].row[f]}
       IN  IF changed = {}
           THEN users' = users /\ Goto(w, "refresh", NoRow)
           ELSE IF id \notin DOMAIN users
           THEN users' = users /\ Exit(w, "exception")
           ELSE LET row == [f \in UserFields |->
                              IF f \in changed THEN new[f] ELSE users[id][f]]
                IN  IF EmailTaken(users, id, row.email)
                    THEN users' = users /\ Exit(w, "exception")
                    ELSE /\ users' = Put(users, id, row)
                         /\ Goto(w, "refresh", NoRow)
    /\ UNCHANGED <<pdfs, summaries, storage, req, resp, uploaded, sessions,
                   nsessions>>

\* delete_user: db.delete(db_user); db.commit(); return db_user.  A DELETE
\* that finds the row gone only warns.
delete_user_commit(w) ==
    /\ At(w, "commit", "delete_user")
    /\ users' = Remove(users, reqs[w].id)
    /\ Exit(w, "return")
    /\ UNCHANGED <<pdfs, summaries, storage, req, resp, uploaded, sessions,
                   nsessions>>

\* create_summary raises AttributeError; the None of get_summary fails the
\* validation of the response.
summary_stub(w) ==
    /\ reqs[w].pc = "handler"
    /\ reqs[w].op \in SummaryOps
    /\ Exit(w, "exception")
    /\ UNCHANGED <<store, req, resp, uploaded, sessions, nsessions>>

Step(w) ==
    \/ \E op \in UserOps \cup SummaryOps, id \in IdArgs(users) : get_db(w, op, id)
    \/ \E user \in UserCreate : create_user_commit(w, user)
    \/ refresh(w)
    \/ read_users_query(w)
    \/ query_user(w)
    \/ \E user \in UserUpdate : update_user_commit(w, user)
    \/ delete_user_commit(w)
    \/ summary_stub(w)
    \/ get_db_finally(w)

ConcNext == \E w \in Workers : Step(w)

ConcSpec == Init /\ [][ConcNext]_vars
(***************************************************************************)
(* Properties of the handlers, one request at a time (checked under Spec). *)
(* req' and resp' are the request a step handles and its response; the     *)
(* unprimed tables are the ones the request finds.                         *)
(***************************************************************************)
HasEmail(email) == \E id \in DOMAIN users : users[id].email = email
HeldByOther(user_id, email) ==
    \E id \in DOMAIN users : id # user_id /\ users[id].email = email

\* C1: a create-user request whose email is the email of an existing user is
\* answered 400 "Email already registered"; no row is added and no existing
\* row changes.
C1_DuplicateEmailRejected ==
    [][(req'.op = "create_user" /\ HasEmail(req'.user.email))
       => /\ resp'.status = 400
          /\ resp'.body = [detail |-> "Email already registered"]
          /\ users' = users]_vars

C1_Witness ==
    /\ req.op = "create_user"
    /\ resp.status = 400
    /\ \E id \in DOMAIN users : users[id].email = req.user.email

\* C3: an update-user request that sets the email of an existing user to the
\* email held by a different user is answered with a client error (4xx), and
\* no user record changes.
C3_UpdateConflictIsClientError ==
    [][(/\ req'.op = "update_user"
        /\ req'.user_id \in DOMAIN users
        /\ req'.user.email # None
        /\ HeldByOther(req'.user_id, req'.user.email))
       => /\ resp'.status \in 400..499
          /\ users' = users]_vars

\* What C4 says of one update of an existing user: unset fields keep their
\* value, set fields take the requested one, the id stays, no other record
\* changes.
PartialUpdateApplied(user_id, user) ==
    /\ DOMAIN users' = DOMAIN users
    /\ users'[user_id].name =
          (IF user.name = None THEN users[user_id].name ELSE user.name)
    /\ users'[user_id].email =
          (IF user.email = None THEN users[user_id].email ELSE user.email)
    /\ users'[user_id].password =
          (IF user.password = None THEN users[user_id].password
           ELSE user.password)
    /\ \A other \in DOMAIN users \ {user_id} : users'[other] = users[other]
    /\ resp'.status = 200
    /\ resp'.body.id = user_id

\* C4 as claimed: every update-user request on an existing user applies the
\* partial update.
C4_EveryUpdateApplied ==
    [][(req'.op = "update_user" /\ req'.user_id \in DOMAIN users)
       => PartialUpdateApplied(req'.user_id, req'.user)]_vars

\* C4: every update-user request on an existing user whose email is unset or
\* is not the email of a different user applies the partial update: unset
\* fields keep their value, set fields take the requested one, the id stays
\* and no other record changes.  A request that sets the email of a different
\* user changes no record.
C4_PartialUpdate ==
    [][(req'.op = "update_user" /\ req'.user_id \in DOMAIN users)
       => IF req'.user.email # None /\ HeldByOther(req'.user_id, req'.user.email)
          THEN users' = users
          ELSE PartialUpdateApplied(req'.user_id, req'.user)]_vars

C4_Witness ==
    /\ req.op = "update_user"
    /\ resp.status = 200
    /\ Cardinality(DOMAIN users) = 2
    /\ req.user.name = None
    /\ req.user.email = None
    /\ req.user.password = "q"
    /\ users[req.user_id].name = "B"
    /\ users[req.user_id].password = "q"

IdentifierReused(id) ==
    \E later \in DOMAIN uploaded :
        later > id /\ uploaded[later].file_id = uploaded[id].file_id

RowsBefore(ids, id) == Cardinality({other \in ids : other < id})
Smaller(a, b) == IF a < b THEN a ELSE b
Larger(a, b) == IF a > b THEN a ELSE b

\* items are the rows of table from the one after the first skip rows on, n of
\* them, each as its response contract (the fields of the row but the id).
IsPage(table, items, skip, n, fields) ==
    /\ Len(items) = n
    /\ \A i \in 1..Len(items) :
          /\ items[i].id \in DOMAIN table
          /\ RowsBefore(DOMAIN table, items[i].id) = Larger(skip, 0) + i - 1
          /\ \A f \in fields : items[i][f] = table[items[i].id][f]

\* The table a listing request reads and the fields of its response contract.
Listed(op) == IF op = "read_users" THEN users ELSE pdfs
ListedFields(op) == IF op = "read_users" THEN {"name", "email"} ELSE {"fileName"}
RowsAfter(table, skip) ==
    Larger(Cardinality(DOMAIN table) - Larger(skip, 0), 0)

\* C8 as claimed: a listing request is answered 200, changes nothing and
\* returns at most limit records (none for a negative limit): the stored
\* records after the first skip.
C8_ListAtMostLimit ==
    [][req'.op \in {"read_users", "read_pdfs"}
       => /\ resp'.status = 200
          /\ store' = store
          /\ Len(resp'.body.items) <= Larger(req'.limit, 0)
          /\ IsPage(Listed(req'.op), resp'.body.items, req'.skip,
                    Smaller(req'.limit, RowsAfter(Listed(req'.op), req'.skip)),
                    ListedFields(req'.op))]_vars

\* C8: a listing request is answered 200, changes nothing and returns the
\* stored records after the first skip ones (none is skipped when skip is
\* negative): at most limit of them when limit >= 0, all of them when limit
\* is negative.  On an empty table the result is the empty list.
C8_ListPage ==
    [][req'.op \in {"read_users", "read_pdfs"}
       => /\ resp'.status = 200
          /\ store' = store
          /\ IsPage(Listed(req'.op), resp'.body.items, req'.skip,
                    IF req'.limit < 0
                    THEN RowsAfter(Listed(req'.op), req'.skip)
                    ELSE Smaller(req'.limit,
                                 RowsAfter(Listed(req'.op), req'.skip)),
                    ListedFields(req'.op))
          /\ Listed(req'.op) = <<>> => resp'.body.items = <<>>]_vars

C8_Witness ==
    /\ req.op = "read_users"
    /\ req.skip = 1
    /\ req.limit = 1
    /\ Cardinality(DOMAIN users) = 2
    /\ Len(resp.body.items) = 1
    /\ resp.body.items[1].id = Max(DOMAIN users)

\* C10: table summaries is empty in every reachable state, and the two
\* summary endpoints change no user row, no PDF row and no stored file.
C10_NoSummaryEver ==
    /\ [](summaries = <<>>)
    /\ [][req'.op \in {"create_summary", "get_summary"}
          => (users' = users /\ pdfs' = pdfs /\ storage' = storage)]_vars

C10_Witness ==
    /\ req.op = "create_summary"
    /\ users # <<>>
    /\ pdfs # <<>>
    /\ summaries = <<>>
(***************************************************************************)
(* Properties of the concurrent handlers (checked under ConcSpec).         *)
(***************************************************************************)
InFlight(w) == reqs[w].pc \notin {"idle", "done"}

\* C2: whatever the interleaving of concurrent create-user, update-user and
\* delete-user requests, no two user records have the same email.
C2_EmailUnique ==
    \A id, other \in DOMAIN users :
        id # other => users[id].email # users[other].email

\* Two requests in flight at once have got past their commits: one wrote its
\* email, the other was refused (400 or IntegrityError), and two users exist.
C2_Witness ==
    /\ Cardinality(DOMAIN users) = 2
    /\ reqs["w1"].pc = "exit"
    /\ reqs["w2"].pc = "exit"
    /\ reqs["w1"].outcome = "return"
    /\ reqs["w2"].outcome \in {"HTTPException", "exception"}

\* C9: every request in flight holds a session of its own, which is open; a
\* request that has completed (by return, HTTPException or an exception the
\* handler does not catch) has had its session closed, and no session is open
\* without a request in flight.
C9_SessionClosed ==
    /\ \A w \in Workers : InFlight(w) => reqs[w].db \in sessions
    /\ \A w, v \in Workers : (w # v /\ InFlight(w) /\ InFlight(v))
                             => reqs[w].db # reqs[v].db
    /\ \A w \in Workers : reqs[w].pc = "done" => reqs[w].db \notin sessions
    /\ \A db \in sessions : \E w \in Workers : InFlight(w) /\ reqs[w].db = db

C9_Witness ==
    /\ sessions = {}
    /\ nsessions = 3
    /\ reqs["w1"].pc = "done"
    /\ reqs["w1"].outcome = "exception"
    /\ reqs["w2"].pc = "done"
    /\ reqs["w2"].outcome = "HTTPException"
====
